---- MODULE Spec2Model ----
(***************************************************************************)
(* Model of the IpAddress class of script.js (parser, formatter and mask   *)
(* renderer) and of the part of refreshIp that constructs it.              *)
(*                                                                         *)
(* A JavaScript string is a sequence of one-character strings, so that     *)
(* split, includes, replace, parseInt, toString and padStart are modelled  *)
(* by what they do on the characters.                                      *)
(***************************************************************************)
EXTENDS Integers, Sequences, FiniteSets

\* ------------------------------------------------------------------------
\* Characters
\* ------------------------------------------------------------------------

Digits ==
    {"0", "1", "2", "3", "4", "5", "6", "7", "8", "9"}

\* Number.prototype.toString digits, in order of value
DigitChars ==
    <<"0", "1", "2", "3", "4", "5", "6", "7", "8", "9",
      "a", "b", "c", "d", "e", "f">>

UpperChars ==
    <<"0", "1", "2", "3", "4", "5", "6", "7", "8", "9",
      "A", "B", "C", "D", "E", "F">>

HexChars ==
    {DigitChars[i] : i \in 1..16} \cup {UpperChars[i] : i \in 1..16}

\* characters parseInt skips in front of the number
WhiteSpace ==
    {" ", "\t", "\n", "\r"}

\* characters the regular expressions' "." does not match
LineTerminators ==
    {"\n", "\r"}

\* value of a digit character (case-insensitive), 99 for a non-digit
DigitVal(c) ==
    IF \E i \in 1..16 : DigitChars[i] = c \/ UpperChars[i] = c
    THEN (CHOOSE i \in 1..16 : DigitChars[i] = c \/ UpperChars[i] = c) - 1
    ELSE 99

\* ------------------------------------------------------------------------
\* String primitives of JavaScript
\* ------------------------------------------------------------------------

\* s.substring(i - 1): the characters of s from position i (1-based) on
From(s, i) ==
    SubSeq(s, i, Len(s))

\* sub occurs in s at position i
occursAt(s, sub, i) ==
    /\ i >= 1
    /\ i + Len(sub) - 1 <= Len(s)
    /\ \A k \in 1..Len(sub) : s[i + k - 1] = sub[k]

\* String.prototype.includes
includes(s, sub) ==
    \E i \in 1..(Len(s) + 1) : occursAt(s, sub, i)

\* String.prototype.indexOf, 1-based; 0 when sub does not occur
indexOf(s, sub) ==
    IF includes(s, sub)
    THEN CHOOSE i \in 1..(Len(s) + 1) :
            /\ occursAt(s, sub, i)
            /\ \A j \in 1..(i - 1) : ~occursAt(s, sub, j)
    ELSE 0

\* String.prototype.split with a one-character separator: the pieces of s
\* from position start on, scanning from position i
RECURSIVE splitFrom(_, _, _, _)
splitFrom(s, sep, start, i) ==
    IF i > Len(s) THEN <<SubSeq(s, start, Len(s))>>
    ELSE IF s[i] = sep
    THEN <<SubSeq(s, start, i - 1)>> \o splitFrom(s, sep, i + 1, i + 1)
    ELSE splitFrom(s, sep, start, i + 1)

split(s, sep) ==
    splitFrom(s, sep, 1, 1)

\* Array.prototype.join
RECURSIVE join(_, _)
join(strs, sep) ==
    IF Len(strs) = 0 THEN <<>>
    ELSE IF Len(strs) = 1 THEN strs[1]
    ELSE strs[1] \o <<sep>> \o join(Tail(strs), sep)

\* String.prototype.repeat for a count >= 0 (a negative count throws, see expand)
repeat(c, n) ==
    [i \in 1..n |-> c]

\* String.prototype.replace with a string pattern: the first occurrence only
replace(s, sub, by) ==
    LET i == indexOf(s, sub)
    IN  IF i = 0 THEN s
        ELSE SubSeq(s, 1, i - 1) \o by \o From(s, i + Len(sub))

\* (ip.match(/::/g) || []).length: matches are found left to right and do not overlap
RECURSIVE countDoubleColumn(_)
countDoubleColumn(s) ==
    IF Len(s) < 2 THEN 0
    ELSE IF s[1] = ":" /\ s[2] = ":" THEN 1 + countDoubleColumn(From(s, 3))
    ELSE countDoubleColumn(Tail(s))

\* /^[...]*$/.test(s): every character of s is in the class
allIn(s, class) ==
    \A i \in 1..Len(s) : s[i] \in class

\* /\/.*\//.test(s): two "/" with no line terminator between them
twoSlashes(s) ==
    \E i \in 1..Len(s) : \E j \in (i + 1)..Len(s) :
        /\ s[i] = "/"
        /\ s[j] = "/"
        /\ \A k \in (i + 1)..(j - 1) : s[k] \notin LineTerminators

\* ------------------------------------------------------------------------
\* parseInt and Number.prototype.toString
\* ------------------------------------------------------------------------

\* the digits parseInt reads: the longest prefix of digits of the radix
RECURSIVE digitPrefix(_, _)
digitPrefix(s, radix) ==
    IF Len(s) = 0 \/ DigitVal(s[1]) >= radix THEN <<>>
    ELSE <<s[1]>> \o digitPrefix(Tail(s), radix)

\* A JavaScript number never overflows; the code only compares the numbers
\* it parses with maxima of at most 65535, so a value above NumberCap is
\* kept as NumberCap.
NumberCap ==
    1000000

RECURSIVE digitsValue(_, _, _)
digitsValue(s, radix, acc) ==
    IF Len(s) = 0 THEN acc
    ELSE LET n == acc * radix + DigitVal(s[1])
         IN  digitsValue(Tail(s), radix, IF n > NumberCap THEN NumberCap ELSE n)

RECURSIVE skipWhiteSpace(_)
skipWhiteSpace(s) ==
    IF Len(s) > 0 /\ s[1] \in WhiteSpace THEN skipWhiteSpace(Tail(s)) ELSE s

\* parseInt(s, radix): white space and a sign are skipped, with radix 16 a
\* "0x" prefix too; then the longest run of digits is read and whatever
\* follows it is ignored; NaN when no digit was read
parseInt(s, radix) ==
    LET t == skipWhiteSpace(s)
        neg == Len(t) > 0 /\ t[1] = "-"
        u == IF Len(t) > 0 /\ t[1] \in {"-", "+"} THEN Tail(t) ELSE t
        v == IF radix = 16 /\ Len(u) >= 2 /\ u[1] = "0" /\ u[2] \in {"x", "X"}
             THEN From(u, 3) ELSE u
        d == digitPrefix(v, radix)
        n == digitsValue(d, radix, 0)
    IN  IF Len(d) = 0 THEN [nan |-> TRUE, val |-> 0]
        ELSE [nan |-> FALSE, val |-> IF neg THEN 0 - n ELSE n]

\* mutant of numToString: the digits above 9 in upper case
RECURSIVE numToString_upperCase(_, _)
numToString_upperCase(n, base) ==
    IF n < base THEN <<UpperChars[n + 1]>>
    ELSE numToString_upperCase(n \div base, base) \o <<UpperChars[(n % base) + 1]>>

\* Number(n).toString(base) for an integer n >= 0
RECURSIVE numToString(_, _)
numToString(n, base) ==
    IF n < base THEN <<DigitChars[n + 1]>>
    ELSE numToString(n \div base, base) \o <<DigitChars[(n % base) + 1]>>

\* s.padStart(width, 0): the fill 0 is converted to the string "0"
padStart(s, width) ==
    IF Len(s) >= width THEN s ELSE repeat("0", width - Len(s)) \o s

\* ------------------------------------------------------------------------
\* class IpAddress
\* ------------------------------------------------------------------------

\* mutant of paddingConf: the IPv4 widths for either version
paddingConf_ipv4Only(version, base) ==
    CASE base = 2 -> 8 [] base = 10 -> 3 [] base = 16 -> 2 [] OTHER -> 0

\* static paddingConf; a base it does not list gives undefined, and padStart
\* with an undefined length leaves the string as it is (length 0 here)
paddingConf(version, base) ==
    IF version = 4
    THEN CASE base = 2 -> 8 [] base = 10 -> 3 [] base = 16 -> 2 [] OTHER -> 0
    ELSE CASE base = 2 -> 16 [] base = 10 -> 5 [] base = 16 -> 4 [] OTHER -> 0

isIpv4(version) ==
    version = 4

isIpv6(version) ==
    version = 6

getBytesGroupsSeparator(version) ==
    IF isIpv4(version) THEN "." ELSE ":"

getDefaultBase(version) ==
    IF isIpv4(version) THEN 10 ELSE 16

getMaxMask(version) ==
    IF isIpv4(version) THEN 32 ELSE 128

getBytesGroupsNumber(version) ==
    IF isIpv4(version) THEN 4 ELSE 8

\* mutant of maxGroupValue: 2 ** 8 and 2 ** 16, without the "- 1"
maxGroupValue_offByOne(version) ==
    IF version = 4 THEN 256 ELSE 65536

\* largest value of a bytes group: 2 ** 8 - 1 or 2 ** 16 - 1
maxGroupValue(version) ==
    IF isIpv4(version) THEN 255 ELSE 65535

\* The messages of the errors the constructor throws, by the kind of the
\* error taxonomy; RangeError is the exception String.prototype.repeat
\* raises for a negative count.
\*   AmbiguousFormat         "Invalid IP: nor IPv4 nor IPv6"
\*   InvalidCharacter        "Invalid IPv4/IPv6: contains invalid characters"
\*   DuplicateMaskSeparator  "Invalid IP: "/" is seen more that once in row"
\*   InvalidMask             "Invalid IP: mask is not a number"
\*   NegativeMask            "Invalid IP: mask must be a positive number"
\*   MaskTooLarge            "Invalid IPv4/IPv6: highest mask value is 32/128"
\*   DoubleSeparator         "Invalid IPv4: "." is seen more that once in row"
\*   MultipleCompression     "Invalid IPv6: "::" can be used only once"
\*   TripleColon             "Invalid IPv6: ":" is seen more that twice in row"
\*   WrongGroupCount         "Invalid IP: bad bytes groups number"
\*   NotANumber              "Invalid IP: bytes group number i is not a base b number"
\*   GroupOutOfRange         "Invalid IP: bytes group number i must be a number between 0 and max"

\* the constructor ended by throwing: no object exists
Thrown(kind, i) ==
    [threw |-> kind, index |-> i, version |-> 0, masklen |-> 0,
     bytesGroups |-> <<>>]

\* the constructor returned
Constructed(version, masklen, groups) ==
    [threw |-> "", index |-> 0, version |-> version, masklen |-> masklen,
     bytesGroups |-> groups]

\* "Check IP version": 0 when the string has neither "." nor ":"
detectVersion(ip) ==
    IF includes(ip, <<".">>) THEN 4
    ELSE IF includes(ip, <<":">>) THEN 6
    ELSE 0

\* /^[0-9.\/]*$/ and /^[0-9a-fA-F:\/]*$/
charsetOk(version, ip) ==
    IF isIpv4(version) THEN allIn(ip, Digits \cup {".", "/"})
    ELSE allIn(ip, HexChars \cup {":", "/"})

\* "Check for mask": the address part and the mask length, or the error
checkMask(version, ip) ==
    IF ~includes(ip, <<"/">>)
    THEN [threw |-> "", ip |-> ip, masklen |-> getMaxMask(version)]
    ELSE IF twoSlashes(ip)
    THEN [threw |-> "DuplicateMaskSeparator", ip |-> ip, masklen |-> 0]
    ELSE LET slashSplit == split(ip, "/")
             m == parseInt(slashSplit[2], 10)
         IN  IF m.nan
             THEN [threw |-> "InvalidMask", ip |-> slashSplit[1], masklen |-> 0]
             ELSE IF m.val < 0
             THEN [threw |-> "NegativeMask", ip |-> slashSplit[1], masklen |-> 0]
             ELSE IF m.val > getMaxMask(version)
             THEN [threw |-> "MaskTooLarge", ip |-> slashSplit[1], masklen |-> 0]
             ELSE [threw |-> "", ip |-> slashSplit[1], masklen |-> m.val]

\* 'Handle "::" IPv6 notation': the bytes groups after the expansion
expand(version, ip) ==
    LET sep == getBytesGroupsSeparator(version)
        bytesGroups == split(ip, sep)
        doubleColumnCount == countDoubleColumn(ip)
        count == 2 + getBytesGroupsNumber(version) - Len(bytesGroups)
    IN  IF isIpv4(version) /\ includes(ip, <<".", ".">>)
        THEN [threw |-> "DoubleSeparator", bytesGroups |-> <<>>]
        ELSE IF isIpv6(version) /\ doubleColumnCount > 1
        THEN [threw |-> "MultipleCompression", bytesGroups |-> <<>>]
        ELSE IF isIpv6(version) /\ doubleColumnCount = 1
        THEN IF includes(ip, <<":", ":", ":">>)
             THEN [threw |-> "TripleColon", bytesGroups |-> <<>>]
             ELSE IF count < 0
             THEN [threw |-> "RangeError", bytesGroups |-> <<>>]
             ELSE [threw |-> "",
                   bytesGroups |->
                       split(replace(ip, <<":", ":">>, repeat(":", count)), sep)]
        ELSE [threw |-> "", bytesGroups |-> bytesGroups]

\* the text parseInt is given for a group: an empty IPv6 group was set to the
\* number 0, which parseInt converts to "0"
groupText(version, g) ==
    IF isIpv6(version) /\ g = <<>> THEN <<"0">> ELSE g

\* "Check each bytes group is a number within allowed range", from group i on;
\* done holds the values of the groups before i
RECURSIVE checkGroups(_, _, _, _, _)
checkGroups(version, masklen, groups, i, done) ==
    IF i > Len(groups) THEN Constructed(version, masklen, done)
    ELSE LET byteGroupValue ==
                 parseInt(groupText(version, groups[i]), getDefaultBase(version))
         IN  IF byteGroupValue.nan THEN Thrown("NotANumber", i)
             ELSE IF byteGroupValue.val < 0
                     \/ byteGroupValue.val > maxGroupValue(version)
             THEN Thrown("GroupOutOfRange", i)
             ELSE checkGroups(version, masklen, groups, i + 1,
                              Append(done, byteGroupValue.val))

\* "Check each bytes group" up to the group count check
checkBytesGroups(version, ip, masklen) ==
    LET e == expand(version, ip)
    IN  IF e.threw # "" THEN Thrown(e.threw, 0)
        ELSE IF Len(e.bytesGroups) # getBytesGroupsNumber(version)
        THEN Thrown("WrongGroupCount", 0)
        ELSE checkGroups(version, masklen, e.bytesGroups, 1, <<>>)

\* new IpAddress(ip)
IpAddress(ip) ==
    LET version == detectVersion(ip)
    IN  IF version = 0 THEN Thrown("AmbiguousFormat", 0)
        ELSE IF ~charsetOk(version, ip) THEN Thrown("InvalidCharacter", 0)
        ELSE LET m == checkMask(version, ip)
             IN  IF m.threw # "" THEN Thrown(m.threw, 0)
                 ELSE checkBytesGroups(version, m.ip, m.masklen)

\* getIpBytesGroupsString(base = 10, padded = false)
getIpBytesGroupsString(addr, base, padded) ==
    [i \in 1..Len(addr.bytesGroups) |->
        IF padded
        THEN padStart(numToString(addr.bytesGroups[i], base),
                      paddingConf(addr.version, base))
        ELSE numToString(addr.bytesGroups[i], base)]

\* mutant of getIpString: the default base of getIpBytesGroupsString (10)
\* instead of the version's
getIpString_base10(addr, base, padded) ==
    join(getIpBytesGroupsString(addr, IF base = 0 THEN 10 ELSE base, padded),
         getBytesGroupsSeparator(addr.version))

\* getIpString(base, padded = false); base 0 stands for an omitted base
getIpString(addr, base, padded) ==
    join(getIpBytesGroupsString(
             addr, IF base = 0 THEN getDefaultBase(addr.version) ELSE base, padded),
         getBytesGroupsSeparator(addr.version))

\* mutant of getMaskBytesGroupsString: the chunks are not converted to the base
getMaskBytesGroupsString_base2(addr, base) ==
    LET maskBase2String ==
            repeat("1", addr.masklen)
                \o repeat("0", getMaxMask(addr.version) - addr.masklen)
        splitSize ==
            getMaxMask(addr.version) \div getBytesGroupsNumber(addr.version)
    IN  [k \in 1..getBytesGroupsNumber(addr.version) |->
            SubSeq(maskBase2String, (k - 1) * splitSize + 1, k * splitSize)]

\* getMaskBytesGroupsString(base = 2)
getMaskBytesGroupsString(addr, base) ==
    LET maskBase2String ==
            repeat("1", addr.masklen)
                \o repeat("0", getMaxMask(addr.version) - addr.masklen)
        splitSize ==
            getMaxMask(addr.version) \div getBytesGroupsNumber(addr.version)
        chunk(i) == SubSeq(maskBase2String, i * splitSize + 1, (i + 1) * splitSize)
    IN  [k \in 1..getBytesGroupsNumber(addr.version) |->
            IF base # 2
            THEN numToString(parseInt(chunk(k - 1), 2).val, base)
            ELSE chunk(k - 1)]

\* ------------------------------------------------------------------------
\* Input strings
\* ------------------------------------------------------------------------

\* most groups written in an IPv4 / IPv6 input, longest run of separators,
\* largest mask length written after "/"
MaxGroups4 ==
    5

MaxGroups6 ==
    10

MaxRun ==
    3

MaxMaskValue ==
    129

\* the text of the i-th group of an input whose groups are all different:
\* "1", "2", ... (one hex digit, so that the order of the groups shows)
Filler(i) ==
    <<DigitChars[(i % 16) + 1]>>

\* texts[1] sep^counts[1] texts[2] ... texts[n] sep^counts[n], from group i on
RECURSIVE groupsFrom(_, _, _, _)
groupsFrom(sep, texts, counts, i) ==
    IF i > Len(texts) THEN <<>>
    ELSE texts[i] \o repeat(sep, counts[i])
             \o groupsFrom(sep, texts, counts, i + 1)

\* the address with counts[g] separators in gap g: gap 0 is in front of the
\* first group, gap n behind the last
Address(sep, texts, counts) ==
    repeat(sep, counts[0]) \o groupsFrom(sep, texts, counts, 1)

\* one separator between two groups, none at the ends
PlainGaps(n) ==
    [g \in 0..n |-> IF g = 0 \/ g = n THEN 0 ELSE 1]

\* the gaps of n groups with at most two of them changed to 0..MaxRun separators
Gaps(n) ==
    {[PlainGaps(n) EXCEPT ![g1] = k1, ![g2] = k2] :
        g1 \in 0..n, g2 \in 0..n, k1 \in 0..MaxRun, k2 \in 0..MaxRun}

Fillers(n) ==
    [i \in 1..n |-> Filler(i)]

NoMask ==
    <<>>

Masks4 ==
    {NoMask, <<"/", "2", "4">>, <<"/", "2", ".", "4">>, <<"/", "2", "/", "4">>}

Masks6 ==
    {NoMask, <<"/", "6", "4">>, <<"/", "1", "a">>, <<"/", "6", "/", "4">>}

\* inputs that differ in their shape: number of groups, separators, mask
ShapeInputs(sep, maxGroups, masks) ==
    UNION {{Address(sep, Fillers(n), c) \o m : c \in Gaps(n), m \in masks} :
              n \in 0..maxGroups}

\* group texts that differ in value, case, leading zeros and length
Texts4 ==
    {<<"0">>, <<"9">>, <<"2", "5", "5">>, <<"2", "5", "6">>,
     <<"0", "0", "7">>, <<>>}

Texts6 ==
    {<<"0">>, <<"f", "f", "f", "f">>, <<"F", "F", "F", "F">>,
     <<"1", "0", "0", "0", "0">>, <<"0", "0", "a", "0">>,
     <<"A", "b", "C", "d">>, <<"0", "0", "0", "0", "1">>}

\* four decimal groups, each any of Texts4
ValueInputs4 ==
    {Address(".", <<a, b, c, d>>, PlainGaps(4)) : a \in Texts4, b \in Texts4,
                                                   c \in Texts4, d \in Texts4}

\* eight hex groups, at most two of them not the filler
ValueInputs6 ==
    {Address(":", [Fillers(8) EXCEPT ![p1] = t1, ![p2] = t2], PlainGaps(8)) :
        p1 \in 1..8, p2 \in 1..8, t1 \in Texts6, t2 \in Texts6}

\* n equal hex groups with one "::"
CompressedInputs6 ==
    UNION {{Address(":", [i \in 1..n |-> t], [PlainGaps(n) EXCEPT ![g] = 2]) :
               g \in 0..n, t \in Texts6} : n \in 0..MaxGroups6}

\* what is written after the single "/" of a mask
MaskTexts ==
    {numToString(m, 10) : m \in 0..MaxMaskValue}
        \cup {<<"0", "2", "4">>, <<"2", "4", "a">>, <<"2", "4", ".", "0">>,
              <<"1", ":", "2">>, <<"-", "1">>, <<"+", "1">>, <<" ", "8">>,
              <<"9", "9", "9", "9", "9">>, <<"f">>, <<".">>}

MaskInputs ==
    {a \o <<"/">> \o m :
        a \in {<<"1", "0", ".", "0", ".", "0", ".", "0">>, <<":", ":">>,
               <<"F", "F", "f", "f", ":", ":", "1">>},
        m \in MaskTexts}

\* inputs of neither shape, and characters of neither alphabet
OtherInputs ==
    {<<>>, <<"a", "b", "c">>, <<"1", "2", "3", "4">>, <<"1", "2", "/", "4">>,
     <<"g">>, <<"/">>, <<"1", ".", "2", ".", "3", ".", "x">>,
     <<"1", ".", "2", ".", "3", ".", "4", " ">>,
     <<"1", ".", "2", ".", "3", ".", "a">>,
     <<"1", ".", "2", ".", "3", ".", "4", ":", "5">>,
     <<":", ":", "g">>, <<"0", "x", "1", ":", ":">>, <<"-", "1", ":", ":">>,
     <<"1", ":", ":", "2", ":", ":", "3">>,
     <<"1", ":", ":", "2", ":", ":", "3", "/", "1", "a">>,
     <<"a", "b", "c", "d", ":", ":", "1", "/", "2", "4", "/", "8">>}

Inputs ==
    ShapeInputs(".", MaxGroups4, Masks4) \cup ShapeInputs(":", MaxGroups6, Masks6)
        \cup ValueInputs4 \cup ValueInputs6 \cup CompressedInputs6
        \cup MaskInputs \cup OtherInputs

Bases ==
    {2, 10, 16}

\* ------------------------------------------------------------------------
\* State
\* ------------------------------------------------------------------------

VARIABLES
    mainIpInput,    \* value of the #mainIpInput field
    refreshed,      \* refreshIp has run on that value
    errorMessage,   \* #errorMessage: the kind of the error shown, "" for none
    errorIndex,     \* the group number the message names, 0 for none
    ipAddr,         \* the IpAddress refreshIp constructed, NoAddr for none
    call            \* the last method call made on ipAddr and what it returned

vars ==
    <<mainIpInput, refreshed, errorMessage, errorIndex, ipAddr, call>>

NoAddr ==
    [version |-> 0, masklen |-> 0, bytesGroups |-> <<>>]

NoCall ==
    [op |-> "", base |-> 0, padded |-> FALSE, out |-> <<>>, again |-> Thrown("", 0)]

Init ==
    /\ mainIpInput \in Inputs
    /\ refreshed = FALSE
    /\ errorMessage = ""
    /\ errorIndex = 0
    /\ ipAddr = NoAddr
    /\ call = NoCall

\* refreshIp(ip) up to the catch: the address is constructed and the error
\* message is cleared, or the message of whatever was thrown is shown
refreshIp ==
    /\ ~refreshed
    /\ LET r == IpAddress(mainIpInput)
       IN  /\ errorMessage' = r.threw
           /\ errorIndex' = r.index
           /\ ipAddr' = IF r.threw = "" THEN
                            [version |-> r.version, masklen |-> r.masklen,
                             bytesGroups |-> r.bytesGroups]
                        ELSE NoAddr
    /\ refreshed' = TRUE
    /\ call' = NoCall
    /\ UNCHANGED mainIpInput

\* ipAddr.getIpBytesGroupsString(base, padded)
CallGetIpBytesGroupsString ==
    /\ refreshed /\ ipAddr # NoAddr /\ call = NoCall
    /\ \E base \in Bases, padded \in BOOLEAN :
          call' = [NoCall EXCEPT !.op = "getIpBytesGroupsString", !.base = base,
                                 !.padded = padded,
                                 !.out = getIpBytesGroupsString(ipAddr, base, padded)]
    /\ UNCHANGED <<mainIpInput, refreshed, errorMessage, errorIndex, ipAddr>>

\* ipAddr.getIpString(): the string shown in #mainIpDisplay, and the address
\* constructed from that string again
CallGetIpString ==
    /\ refreshed /\ ipAddr # NoAddr /\ call = NoCall
    /\ LET str == getIpString(ipAddr, 0, FALSE)
       IN  call' = [NoCall EXCEPT !.op = "getIpString", !.out = str,
                                  !.again = IpAddress(str)]
    /\ UNCHANGED <<mainIpInput, refreshed, errorMessage, errorIndex, ipAddr>>

\* ipAddr.getMaskBytesGroupsString(base)
CallGetMaskBytesGroupsString ==
    /\ refreshed /\ ipAddr # NoAddr /\ call = NoCall
    /\ \E base \in Bases :
          call' = [NoCall EXCEPT !.op = "getMaskBytesGroupsString", !.base = base,
                                 !.out = getMaskBytesGroupsString(ipAddr, base)]
    /\ UNCHANGED <<mainIpInput, refreshed, errorMessage, errorIndex, ipAddr>>

Next ==
    \/ refreshIp
    \/ CallGetIpBytesGroupsString
    \/ CallGetIpString
    \/ CallGetMaskBytesGroupsString

Spec ==
    Init /\ [][Next]_vars

\* ------------------------------------------------------------------------
\* The specified parse, stated on the input string
\* ------------------------------------------------------------------------

\* the error taxonomy
ErrorKinds ==
    {"AmbiguousFormat", "InvalidCharacter", "DuplicateMaskSeparator",
     "InvalidMask", "NegativeMask", "MaskTooLarge", "DoubleSeparator",
     "MultipleCompression", "TripleColon", "WrongGroupCount", "NotANumber",
     "GroupOutOfRange"}

Chars(s) ==
    {s[i] : i \in 1..Len(s)}

SlashCount(s) ==
    Cardinality({i \in 1..Len(s) : s[i] = "/"})

FirstSlash(s) ==
    CHOOSE i \in 1..Len(s) : s[i] = "/" /\ \A j \in 1..(i - 1) : s[j] # "/"

\* the text in front of the first "/", the whole text when there is none
AddressPart(s) ==
    IF "/" \in Chars(s) THEN SubSeq(s, 1, FirstSlash(s) - 1) ELSE s

\* the text behind the first "/"
MaskPart(s) ==
    IF "/" \in Chars(s) THEN From(s, FirstSlash(s) + 1) ELSE <<>>

SpecVersion(s) ==
    IF "." \in Chars(s) THEN 4 ELSE IF ":" \in Chars(s) THEN 6 ELSE 0

SpecAlphabet(v) ==
    IF v = 4 THEN Digits \cup {".", "/"} ELSE HexChars \cup {":", "/"}

\* a non-empty text of digits of the base (hex digits in either case)
IsNumeral(t, base) ==
    Len(t) > 0 /\ \A i \in 1..Len(t) : DigitVal(t[i]) < base

\* the number a numeral denotes, read from its last digit; a number above
\* NumberCap counts as NumberCap
RECURSIVE Denotes(_, _)
Denotes(t, base) ==
    IF Len(t) = 0 THEN 0
    ELSE LET n == Denotes(SubSeq(t, 1, Len(t) - 1), base) * base + DigitVal(t[Len(t)])
         IN  IF n > NumberCap THEN NumberCap ELSE n

SpecMaxMask(v) ==
    IF v = 4 THEN 32 ELSE 128

SpecGroupCount(v) ==
    IF v = 4 THEN 4 ELSE 8

SpecMaxGroup(v) ==
    IF v = 4 THEN 255 ELSE 65535

\* the groups written in a text: none in the empty text
Written(t, sep) ==
    IF t = <<>> THEN <<>> ELSE split(t, sep)

HasCompression(a) ==
    includes(a, <<":", ":">>)

\* the groups written to the left and to the right of the first "::"
LeftOf(a) ==
    Written(SubSeq(a, 1, indexOf(a, <<":", ":">>) - 1), ":")

RightOf(a) ==
    Written(From(a, indexOf(a, <<":", ":">>) + 2), ":")

\* the group texts of address a after "::" stands for the missing zero groups
SpecGroups(v, a) ==
    IF v = 6 /\ HasCompression(a)
    THEN LET l == LeftOf(a)
             r == RightOf(a)
         IN  l \o [i \in 1..(8 - Len(l) - Len(r)) |-> <<"0">>] \o r
    ELSE split(a, getBytesGroupsSeparator(v))

\* the error of group text g, "" when the group is valid
GroupError(v, g) ==
    IF v = 6 /\ g = <<>> THEN ""
    ELSE IF ~IsNumeral(g, IF v = 4 THEN 10 ELSE 16) THEN "NotANumber"
    ELSE IF Denotes(g, IF v = 4 THEN 10 ELSE 16) > SpecMaxGroup(v)
    THEN "GroupOutOfRange"
    ELSE ""

\* the first group in error, 0 when every group is valid
FirstBadGroup(v, groups) ==
    IF \E i \in 1..Len(groups) : GroupError(v, groups[i]) # ""
    THEN CHOOSE i \in 1..Len(groups) :
            /\ GroupError(v, groups[i]) # ""
            /\ \A j \in 1..(i - 1) : GroupError(v, groups[j]) = ""
    ELSE 0

NoError ==
    [kind |-> "", index |-> 0]

\* the error of the earliest violated step of the parse algorithm, in its
\* fixed order; NoError when no step is violated
ExpectedError(s) ==
    LET v == SpecVersion(s)
        a == AddressPart(s)
        m == MaskPart(s)
        groups == SpecGroups(v, a)
        bad == FirstBadGroup(v, groups)
    IN  IF v = 0 THEN [kind |-> "AmbiguousFormat", index |-> 0]
        ELSE IF ~(Chars(s) \subseteq SpecAlphabet(v))
        THEN [kind |-> "InvalidCharacter", index |-> 0]
        ELSE IF SlashCount(s) > 1
        THEN [kind |-> "DuplicateMaskSeparator", index |-> 0]
        ELSE IF SlashCount(s) = 1 /\ ~IsNumeral(m, 10)
        THEN [kind |-> "InvalidMask", index |-> 0]
        ELSE IF SlashCount(s) = 1 /\ Denotes(m, 10) > SpecMaxMask(v)
        THEN [kind |-> "MaskTooLarge", index |-> 0]
        ELSE IF v = 4 /\ includes(a, <<".", ".">>)
        THEN [kind |-> "DoubleSeparator", index |-> 0]
        ELSE IF v = 6 /\ countDoubleColumn(a) > 1
        THEN [kind |-> "MultipleCompression", index |-> 0]
        ELSE IF v = 6 /\ includes(a, <<":", ":", ":">>)
        THEN [kind |-> "TripleColon", index |-> 0]
        ELSE IF v = 6 /\ HasCompression(a) /\ Len(LeftOf(a)) + Len(RightOf(a)) > 8
        THEN [kind |-> "WrongGroupCount", index |-> 0]
        ELSE IF Len(groups) # SpecGroupCount(v)
        THEN [kind |-> "WrongGroupCount", index |-> 0]
        ELSE IF bad # 0
        THEN [kind |-> GroupError(v, groups[bad]), index |-> bad]
        ELSE NoError

\* refreshIp has run and constructed an address
Parsed ==
    refreshed /\ errorMessage = ""

\* ------------------------------------------------------------------------
\* C1
\* ------------------------------------------------------------------------

\* C1: every address parse returns has version 4 or 6, exactly 4 (V4) or 8
\* (V6) groups, every group in 0..255 (V4) or 0..65535 (V6), and a mask
\* length in 0..32 (V4) or 0..128 (V6) that is 32 / 128 when the input has
\* no "/".
C1_ParsedAddressValid ==
    Parsed =>
        /\ ipAddr.version \in {4, 6}
        /\ Len(ipAddr.bytesGroups) = SpecGroupCount(ipAddr.version)
        /\ \A i \in 1..Len(ipAddr.bytesGroups) :
              ipAddr.bytesGroups[i] \in 0..SpecMaxGroup(ipAddr.version)
        /\ ipAddr.masklen \in 0..SpecMaxMask(ipAddr.version)
        /\ ("/" \notin Chars(mainIpInput)
               => ipAddr.masklen = SpecMaxMask(ipAddr.version))

\* an IPv6 input with "::" and the mask /64 was parsed
C1_Witness ==
    /\ Parsed
    /\ ipAddr.version = 6
    /\ HasCompression(mainIpInput)
    /\ ipAddr.masklen = 64

\* ------------------------------------------------------------------------
\* C2
\* ------------------------------------------------------------------------

RECURSIVE hexValues(_)
hexValues(groups) ==
    IF Len(groups) = 0 THEN <<>>
    ELSE <<Denotes(groups[1], 16)>> \o hexValues(Tail(groups))

\* C2: when an IPv6 input with exactly one "::" and no ":::" is parsed, its
\* groups are the values written to the left of "::", then zero groups, then
\* the values written to the right of "::", each written group on its own.
C2_CompressionExpandsToZeros ==
    LET a == AddressPart(mainIpInput)
        l == hexValues(LeftOf(a))
        r == hexValues(RightOf(a))
    IN  (/\ Parsed
         /\ ipAddr.version = 6
         /\ countDoubleColumn(a) = 1
         /\ ~includes(a, <<":", ":", ":">>))
        => /\ Len(l) + Len(r) <= 8
           /\ ipAddr.bytesGroups = l \o [i \in 1..(8 - Len(l) - Len(r)) |-> 0] \o r

\* ------------------------------------------------------------------------
\* C3
\* ------------------------------------------------------------------------

\* C3 as claimed: parsing the string getIpString returns gives an address
\* equal to the first one in version, groups and mask length.
C3_Idempotent ==
    call.op = "getIpString" =>
        /\ call.again.threw = ""
        /\ call.again.version = ipAddr.version
        /\ call.again.bytesGroups = ipAddr.bytesGroups
        /\ call.again.masklen = ipAddr.masklen

\* C3 amended: parsing the string getIpString returns gives an address equal
\* to the first one in version and groups; its mask length is the full width
\* (the string holds no mask), which is the first one's when the input has
\* no "/".
C3_IdempotentButMask ==
    call.op = "getIpString" =>
        /\ call.again.threw = ""
        /\ call.again.version = ipAddr.version
        /\ call.again.bytesGroups = ipAddr.bytesGroups
        /\ call.again.masklen = SpecMaxMask(ipAddr.version)
        /\ ("/" \notin Chars(mainIpInput) => call.again.masklen = ipAddr.masklen)

\* the string of an IPv6 address written with "::", upper-case digits and a
\* mask was parsed again
C3_Witness ==
    /\ call.op = "getIpString"
    /\ ipAddr.version = 6
    /\ HasCompression(mainIpInput)
    /\ \E i \in 1..8 : ipAddr.bytesGroups[i] = 65535
    /\ "F" \in Chars(mainIpInput)
    /\ "/" \in Chars(mainIpInput)
    /\ call.again.threw = ""

\* ------------------------------------------------------------------------
\* C4
\* ------------------------------------------------------------------------

\* C4: parse returns an address or reports one error of the taxonomy, never
\* another exception; an IPv6 input with one "::" whose groups cannot be
\* brought to 8 fails with WrongGroupCount.
C4_OnlyTaxonomyErrors ==
    refreshed =>
        /\ errorMessage = "" \/ errorMessage \in ErrorKinds
        /\ (/\ SpecVersion(mainIpInput) = 6
            /\ HasCompression(AddressPart(mainIpInput))
            /\ ExpectedError(mainIpInput).kind = "WrongGroupCount"
            /\ Len(split(AddressPart(mainIpInput), ":")) > 10)
           => errorMessage = "WrongGroupCount"

\* ------------------------------------------------------------------------
\* C5
\* ------------------------------------------------------------------------

\* C5: with exactly one "/", parse succeeds only if the text after it is an
\* unsigned decimal integer, which is then the mask length; and when that
\* text is not numeric (and the version and the characters are accepted)
\* parse fails with InvalidMask.
C5_MaskIsDecimalInteger ==
    (refreshed /\ SlashCount(mainIpInput) = 1) =>
        LET m == MaskPart(mainIpInput)
        IN  /\ errorMessage = ""
                => IsNumeral(m, 10) /\ ipAddr.masklen = Denotes(m, 10)
            /\ (/\ SpecVersion(mainIpInput) # 0
                /\ Chars(mainIpInput) \subseteq SpecAlphabet(SpecVersion(mainIpInput))
                /\ ~IsNumeral(m, 10))
               => errorMessage = "InvalidMask"

\* ------------------------------------------------------------------------
\* C6
\* ------------------------------------------------------------------------

\* C6: the error parse reports is the error of the earliest violated step of
\* the fixed order (for a group error, of the first group in error), never
\* that of a later step.
C6_EarliestErrorReported ==
    (refreshed /\ errorMessage # "") =>
        /\ errorMessage = ExpectedError(mainIpInput).kind
        /\ errorIndex = ExpectedError(mainIpInput).index

\* ------------------------------------------------------------------------
\* C7
\* ------------------------------------------------------------------------

\* the lower-case form of a digit character
Lower(c) ==
    DigitChars[DigitVal(c) + 1]

\* a numeral without its leading zeros, in lower case
RECURSIVE Normalized(_)
Normalized(t) ==
    IF Len(t) > 1 /\ t[1] = "0" THEN Normalized(Tail(t))
    ELSE [i \in 1..Len(t) |-> Lower(t[i])]

\* s is count numerals of the base, each at most max, joined by sep
WellFormed(s, sep, count, base, max) ==
    LET groups == split(s, sep)
    IN  /\ Len(groups) = count
        /\ \A i \in 1..count :
              IsNumeral(groups[i], base) /\ Denotes(groups[i], base) <= max

WellFormed4(s) ==
    Chars(s) \subseteq Digits \cup {"."} /\ WellFormed(s, ".", 4, 10, 255)

WellFormed6(s) ==
    Chars(s) \subseteq HexChars \cup {":"} /\ WellFormed(s, ":", 8, 16, 65535)

NormalizedInput(s, sep) ==
    LET groups == split(s, sep)
    IN  join([i \in 1..Len(groups) |-> Normalized(groups[i])], sep)

\* C7: a dotted-decimal string of 4 groups in 0..255, or a colon-hex string
\* of 8 written groups in 0..65535, is parsed, and getIpString with the
\* default base returns it normalized: the same groups without leading
\* zeros, in decimal (V4) or lower-case hex (V6).
C7_RoundTripWithoutMask ==
    (refreshed /\ (WellFormed4(mainIpInput) \/ WellFormed6(mainIpInput))) =>
        /\ errorMessage = ""
        /\ call.op = "getIpString"
              => call.out = NormalizedInput(
                                mainIpInput,
                                IF WellFormed4(mainIpInput) THEN "." ELSE ":")

\* the string of 8 written hex groups with upper-case digits and leading
\* zeros was returned, and differs from the input
C7_Witness ==
    /\ call.op = "getIpString"
    /\ WellFormed6(mainIpInput)
    /\ "F" \in Chars(mainIpInput)
    /\ Len(call.out) < Len(mainIpInput)

\* ------------------------------------------------------------------------
\* C8
\* ------------------------------------------------------------------------

RECURSIVE Power2(_)
Power2(n) ==
    IF n = 0 THEN 1 ELSE 2 * Power2(n - 1)

RECURSIVE Flatten(_)
Flatten(strs) ==
    IF Len(strs) = 0 THEN <<>> ELSE strs[1] \o Flatten(Tail(strs))

\* the number of leading "1" in chunk k of a mask of m bits in chunks of w
OnesIn(k, m, w) ==
    IF m <= (k - 1) * w THEN 0
    ELSE IF m >= k * w THEN w
    ELSE m - (k - 1) * w

\* t is the representation of n in the base with no leading zero
IsUnpadded(t, n, base) ==
    /\ IsNumeral(t, base)
    /\ \A i \in 1..Len(t) : t[i] = Lower(t[i])
    /\ Denotes(t, base) = n
    /\ Len(t) = 1 \/ t[1] # "0"

\* C8: getMaskBytesGroupsString at base 2 returns 4 (V4) or 8 (V6) chunks of
\* 8 or 16 characters that together are masklen "1" followed by "0"; at
\* another base it returns, chunk by chunk, the unpadded representation of
\* the number the binary chunk denotes.
C8_MaskRendering ==
    call.op = "getMaskBytesGroupsString" =>
        LET n == SpecGroupCount(ipAddr.version)
            w == SpecMaxMask(ipAddr.version) \div n
            m == ipAddr.masklen
        IN  /\ Len(call.out) = n
            /\ call.base = 2 =>
                  /\ \A k \in 1..n : Len(call.out[k]) = w
                  /\ Flatten(call.out)
                        = [i \in 1..(n * w) |-> IF i <= m THEN "1" ELSE "0"]
            /\ call.base # 2 =>
                  \A k \in 1..n :
                      IsUnpadded(call.out[k],
                                 Power2(w) - Power2(w - OnesIn(k, m, w)),
                                 call.base)

\* the mask of 10.0.0.0/24 was rendered at base 10
C8_Witness ==
    /\ call.op = "getMaskBytesGroupsString"
    /\ call.base = 10
    /\ ipAddr.version = 4
    /\ ipAddr.masklen = 24
    /\ call.out = <<<<"2", "5", "5">>, <<"2", "5", "5">>, <<"2", "5", "5">>, <<"0">>>>

\* ------------------------------------------------------------------------
\* C9
\* ------------------------------------------------------------------------

\* the configured widths
Width(version, base) ==
    IF version = 4
    THEN CASE base = 2 -> 8 [] base = 10 -> 3 [] base = 16 -> 2
    ELSE CASE base = 2 -> 16 [] base = 10 -> 5 [] base = 16 -> 4

\* C9: getIpBytesGroupsString with padded = true returns one string per
\* group, each of exactly the configured width, made of the unpadded
\* representation of the group preceded by "0" characters only.
C9_PaddedRendering ==
    (call.op = "getIpBytesGroupsString" /\ call.padded) =>
        /\ Len(call.out) = Len(ipAddr.bytesGroups)
        /\ \A i \in 1..Len(call.out) :
              \E z \in 0..Width(ipAddr.version, call.base) :
                  /\ Len(call.out[i]) = Width(ipAddr.version, call.base)
                  /\ \A k \in 1..z : call.out[i][k] = "0"
                  /\ IsUnpadded(From(call.out[i], z + 1), ipAddr.bytesGroups[i],
                                call.base)

\* an IPv6 address with a group 65535 and a group below 16 was rendered
\* padded at base 10
C9_Witness ==
    /\ call.op = "getIpBytesGroupsString"
    /\ call.padded
    /\ call.base = 10
    /\ ipAddr.version = 6
    /\ \E i \in 1..8 : ipAddr.bytesGroups[i] = 65535
    /\ \E i \in 1..8 : ipAddr.bytesGroups[i] < 16

\* ------------------------------------------------------------------------
\* C10
\* ------------------------------------------------------------------------

\* C10: an IPv6 input without "::" is accepted only if all 8 of its segments
\* are written: none is empty when the groups are validated.
C10_NoEmptySegmentWithoutCompression ==
    (/\ Parsed
     /\ ipAddr.version = 6
     /\ ~HasCompression(AddressPart(mainIpInput)))
    => LET segments == split(AddressPart(mainIpInput), ":")
       IN  Len(segments) = 8 /\ \A i \in 1..8 : segments[i] # <<>>

====
